---- MODULE Spec2Model ----
(***************************************************************************)
(* EcoCollect-AI: the Firestore service layer (src/lib/firebase/services),  *)
(* the pickup form that drives it, the e-waste scanner hook, and the       *)
(* client: the notification store, the install prompt, the rewards page    *)
(* and sign-in (AuthPage and App).                                         *)
(*                                                                         *)
(* The database is five collections.  A document is a function from field  *)
(* names to values; a nullable field holds <<>> (null) or <<v>>.           *)
(* Weights are in tenths of a kilogram, co2SavedKg in hundredths, so that  *)
(* actualWeightKg * 1.5 is the integer w * 15.                             *)
(* Free-text fields (addresses, descriptions, titles) and the updatedAt /  *)
(* createdAt stamps are left out: no operation reads them.                 *)
(***************************************************************************)
EXTENDS Integers, Sequences, FiniteSets, TLC

VARIABLES
    profiles,            \* collection 'profiles', keyed by user id
    pickups,             \* collection 'pickups', in creation order (index = id)
    pickupItems,         \* collection 'pickupItems', in creation order
    creditTransactions,  \* collection 'creditTransactions', in creation order
    notifications,       \* collection 'notifications', in creation order
    awards,              \* per collector session: its completePickupAndAwardCredits call
                         \* between getDoc and commit, if any
    submits,             \* PickupForm.handleSubmit calls between createPickup and addPickupItems
    now,                 \* the server's commit time, the value of serverTimestamp()
    outcome,             \* the service call that settled last, and "ok" or its error
    predictions,         \* useEwasteScanner: what the classifier returns for the frame
    result,              \* useEwasteScanner: the hook's result state
    store,               \* useAppStore: the notification list and unreadCount
    installPrompt,       \* PWAInstallPrompt: its state, its timers, and the
                         \* 'pwa-dismissed' entry of localStorage
    rewards,             \* RewardsPage: its state, its fetch and its subscription
    auth,                \* Firebase Auth: the accounts and the signed-in user, if any
    app,                 \* App: its state, the running auth-state callback and
                         \* the snapshot listeners it has opened
    authPage             \* AuthPage: the running sign-up or OAuth handler

db == <<profiles, pickups, pickupItems, creditTransactions, notifications>>
scanner == <<predictions, result>>
\* the state held in the browser by the store, pages and components
client == <<store, installPrompt, rewards, auth, app, authPage>>
\* the service layer: the database, the calls under way, the commit clock
services == <<profiles, pickups, pickupItems, creditTransactions, notifications,
              awards, submits, now, outcome>>
vars == <<profiles, pickups, pickupItems, creditTransactions, notifications,
          awards, submits, now, outcome, predictions, result,
          store, installPrompt, rewards, auth, app, authPage>>

----------------------------------------------------------------------------
\* Bounds

\* every write is a commit, so MaxTime bounds the number of writes of a
\* behaviour and with it the number of documents of every collection
MaxTime == 4

\* requests the form creates in one behaviour
MaxPickups == 1

Users == {"u1"}
Collectors == {"c1", "c2"}
\* award inputs: tenths of a kilogram, credits
AwardWeights == {-5, 5}
AwardCredits == {12}

----------------------------------------------------------------------------
\* Values

Null == <<>>
Some(v) == <<v>>

NoData == [f \in {} |-> Null]

PickupStatus ==
    {"pending", "matched", "collector_enroute", "arrived", "inspecting",
     "collected", "completed", "cancelled"}

\* object spread {...a, ...b} and the field merge of updateDoc / batch.update
Merge(a, b) ==
    [f \in DOMAIN a \cup DOMAIN b |-> IF f \in DOMAIN b THEN b[f] ELSE a[f]]

\* increment(n) applied to the numeric field f of doc
Increment(doc, f, n) == Merge(doc, [g \in {f} |-> doc[f] + n])

\* terms.reduce((s, t) => s + t, 0)
RECURSIVE Sum(_)
Sum(terms) ==
    IF terms = <<>> THEN 0 ELSE Head(terms) + Sum(Tail(terms))

----------------------------------------------------------------------------
\* Seeded e-waste categories: avgWeightKg in tenths of a kilogram

AvgWeightKg == [smartphones |-> 2, batteries |-> 5]
Categories == DOMAIN AvgWeightKg

\* an item as StepSelectItems builds it: quantity starts at 1 and is never
\* taken below 1, estimatedWeight is the category's average weight
FormItem(cat, q) ==
    [categoryId |-> cat, quantity |-> q, estimatedWeight |-> AvgWeightKg[cat]]

\* item lists the form can hold at submission: non-empty, one entry per
\* selected category
FormItemLists ==
    {<<FormItem("smartphones", 2)>>,
     <<FormItem("smartphones", 1), FormItem("batteries", 2)>>}

----------------------------------------------------------------------------
\* the client state before any component has mounted or been used
StoreInit == [notifications |-> <<>>, unreadCount |-> 0]

\* PWAInstallPrompt not mounted, on a device that never dismissed it
InstallPromptInit ==
    [mounted |-> FALSE, showPrompt |-> FALSE, deferredPrompt |-> FALSE,
     timers |-> 0, iosDevice |-> FALSE, pwaDismissed |-> Null, today |-> 0]

\* RewardsPage not mounted
RewardsInit ==
    [mounted |-> FALSE, transactions |-> <<>>, loading |-> TRUE,
     fetch |-> [state |-> "none", snapshot |-> <<>>],
     subscribed |-> FALSE, delivered |-> Null]

\* Firebase Auth with no account yet; an account is its displayName
AuthInit == [currentUser |-> Null, accounts |-> NoData]

\* App mounted with nobody signed in and no callback running
AppInit ==
    [user |-> Null, profile |-> Null, pickups |-> <<>>, loading |-> TRUE,
     callback |-> Null, listeners |-> <<>>]

ClientInit ==
    /\ store = StoreInit
    /\ installPrompt = InstallPromptInit
    /\ rewards = RewardsInit
    /\ auth = AuthInit
    /\ app = AppInit
    /\ authPage = Null

Init ==
    /\ profiles = NoData
    /\ pickups = <<>>
    /\ pickupItems = <<>>
    /\ creditTransactions = <<>>
    /\ notifications = <<>>
    /\ awards = [c \in Collectors |-> Null]
    /\ submits = [u \in Users |-> Null]
    /\ now = 0
    /\ outcome = [call |-> "none", result |-> "ok"]
    /\ predictions = <<>>
    /\ result = Null
    /\ ClientInit

\* The server gives every commit its own, increasing commit time;
\* serverTimestamp() in a write resolves to it.  No service call touches
\* the scanner hook's state or, by itself, the client's.
Commit(call) ==
    /\ now < MaxTime
    /\ now' = now + 1
    /\ outcome' = [call |-> call, result |-> "ok"]
    /\ UNCHANGED <<scanner, client>>

\* the call rejects with error and has written nothing
Reject(call, error) ==
    /\ outcome' = [call |-> call, result |-> error]
    /\ UNCHANGED <<db, now, scanner, client>>

----------------------------------------------------------------------------
\* PROFILE SERVICES

ProfileInputs == {[fullName |-> "Ann"]}
ProfileUpdates == {[fullName |-> "Eco Warrior"], [greenCredits |-> 12]}

\* the document createProfile builds: the defaults, then ...data
ProfileData(data) ==
    Merge([greenCredits |-> 0, totalItemsRecycled |-> 0, totalWeightKg |-> 0,
           co2SavedKg |-> 0, badgeLevel |-> "seedling"], data)

\* setDoc(ref, data): the document becomes data, whether or not it existed
SetDoc(coll, id, data) ==
    [k \in DOMAIN coll \cup {id} |-> IF k = id THEN data ELSE coll[k]]

\* updateDoc(ref, data) on an existing document
UpdateDoc(coll, id, data) ==
    [coll EXCEPT ![id] = Merge(coll[id], data)]

CreateProfile(userId, data) ==
    /\ Commit("createProfile")
    /\ profiles' = SetDoc(profiles, userId, ProfileData(data))
    /\ UNCHANGED <<pickups, pickupItems, creditTransactions, notifications,
                   awards, submits>>

\* updateDoc rejects when the document does not exist
UpdateProfile(userId, data) ==
    \/ /\ userId \in DOMAIN profiles
       /\ Commit("updateProfile")
       /\ profiles' = UpdateDoc(profiles, userId, data)
       /\ UNCHANGED <<pickups, pickupItems, creditTransactions, notifications,
                      awards, submits>>
    \/ /\ userId \notin DOMAIN profiles
       /\ Reject("updateProfile", "not-found")
       /\ UNCHANGED <<awards, submits>>

----------------------------------------------------------------------------
\* PICKUP FORM

\* Math.round(n / d) for d > 0
Round(n, d) == (2 * n + d) \div (2 * d)

ItemWeight(i) == i.estimatedWeight * i.quantity
ItemQuantity(i) == i.quantity

\* greenCreditsPerKg of the seeded categories
GreenCreditsPerKg == [smartphones |-> 25, batteries |-> 40]

\* the request with its credits estimated at each category's own rate, as
\* the item step displays them, in place of the flat 20 per kilogram
NewPickupCategoryRate(userId, items) ==
    LET totalWeight == Sum([n \in DOMAIN items |-> ItemWeight(items[n])])
        totalItems == Sum([n \in DOMAIN items |-> ItemQuantity(items[n])])
        estimatedCredits ==
            Round(Sum([n \in DOMAIN items |->
                          GreenCreditsPerKg[items[n].categoryId]
                              * ItemWeight(items[n])]), 10)
    IN  [donorId |-> userId,
         collectorId |-> Null,
         status |-> "pending",
         totalItems |-> totalItems,
         estimatedWeightKg |-> totalWeight,
         actualWeightKg |-> Null,
         estimatedCredits |-> estimatedCredits,
         actualCreditsAwarded |-> Null,
         matchedAt |-> Null,
         collectedAt |-> Null,
         completedAt |-> Null]

\* the request document handleSubmit passes to createPickup
NewPickup(userId, items) ==
    LET totalWeight == Sum([n \in DOMAIN items |-> ItemWeight(items[n])])
        totalItems == Sum([n \in DOMAIN items |-> ItemQuantity(items[n])])
        estimatedCredits == Round(totalWeight * 20, 10)
    IN  [donorId |-> userId,
         collectorId |-> Null,
         status |-> "pending",
         totalItems |-> totalItems,
         estimatedWeightKg |-> totalWeight,
         actualWeightKg |-> Null,
         estimatedCredits |-> estimatedCredits,
         actualCreditsAwarded |-> Null,
         matchedAt |-> Null,
         collectedAt |-> Null,
         completedAt |-> Null]

\* the item documents handleSubmit passes to addPickupItems
NewPickupItem(pickupId, item) ==
    [pickupId |-> pickupId,
     categoryId |-> item.categoryId,
     quantity |-> item.quantity,
     estimatedWeightKg |-> item.estimatedWeight * item.quantity,
     actualWeightKg |-> Null,
     creditsEarned |-> 0]

\* handleSubmit up to the resolution of createPickup (addDoc).  The form is
\* rendered only for a signed-in user whose profile is loaded, and the
\* submit button is disabled while a submission is under way.
SubmitCreatePickup(userId, items) ==
    /\ userId \in DOMAIN profiles
    /\ submits[userId] = Null
    /\ Len(pickups) < MaxPickups
    /\ Commit("createPickup")
    /\ pickups' = Append(pickups, NewPickup(userId, items))
    /\ submits' = [submits EXCEPT ![userId] =
                      Some([pickupId |-> Len(pickups) + 1, items |-> items])]
    /\ UNCHANGED <<profiles, pickupItems, creditTransactions, notifications,
                   awards>>

\* addPickupItems: one batch holding a set() per item, committed at once
AddPickupItems(pickupId, items) ==
    pickupItems' =
        pickupItems \o [n \in 1..Len(items) |-> NewPickupItem(pickupId, items[n])]

\* handleSubmit from the resolution of createPickup to its end
SubmitAddItems(userId) ==
    /\ submits[userId] # Null
    /\ Commit("addPickupItems")
    /\ LET call == submits[userId][1]
       IN  AddPickupItems(call.pickupId, call.items)
    /\ submits' = [submits EXCEPT ![userId] = Null]
    /\ UNCHANGED <<profiles, pickups, creditTransactions, notifications,
                   awards>>

\* addPickupItems rejects (the batch is not committed): handleSubmit's catch
\* reports the error and the form is ready again
SubmitAddItemsFail(userId) ==
    /\ submits[userId] # Null
    /\ submits' = [submits EXCEPT ![userId] = Null]
    /\ Reject("addPickupItems", "unavailable")
    /\ UNCHANGED awards

----------------------------------------------------------------------------
\* PICKUP SERVICES

\* the optional argument left out
AdditionalData == {NoData}

\* serverTimestamp(), resolved by the server at the write
ServerTimestamp == Some(now)

\* the fields updatePickupStatus writes: status, the stamp that goes with
\* it, then ...additionalData
StatusUpdateData(status, additionalData) ==
    LET base == [status |-> status]
        m == IF status = "matched"
             THEN Merge(base, [matchedAt |-> ServerTimestamp]) ELSE base
        c == IF status = "collected"
             THEN Merge(m, [collectedAt |-> ServerTimestamp]) ELSE m
        d == IF status = "completed"
             THEN Merge(c, [completedAt |-> ServerTimestamp]) ELSE c
        x == IF status = "cancelled"
             THEN Merge(d, [cancelledAt |-> ServerTimestamp]) ELSE d
    IN  Merge(x, additionalData)

UpdatePickupStatus(pickupId, status, additionalData) ==
    \/ /\ pickupId \in DOMAIN pickups
       /\ Commit("updatePickupStatus")
       /\ pickups' = UpdateDoc(pickups, pickupId,
                               StatusUpdateData(status, additionalData))
       /\ UNCHANGED <<profiles, pickupItems, creditTransactions, notifications,
                      awards, submits>>
    \/ /\ pickupId \notin DOMAIN pickups
       /\ Reject("updatePickupStatus", "not-found")
       /\ UNCHANGED <<awards, submits>>

AcceptData(collectorId) ==
    [collectorId |-> Some(collectorId),
     status |-> "matched",
     matchedAt |-> ServerTimestamp]

AcceptPickup(pickupId, collectorId) ==
    \/ /\ pickupId \in DOMAIN pickups
       /\ Commit("acceptPickup")
       /\ pickups' = UpdateDoc(pickups, pickupId, AcceptData(collectorId))
       /\ UNCHANGED <<profiles, pickupItems, creditTransactions, notifications,
                      awards, submits>>
    \/ /\ pickupId \notin DOMAIN pickups
       /\ Reject("acceptPickup", "not-found")
       /\ UNCHANGED <<awards, submits>>

----------------------------------------------------------------------------
\* CREDIT TRANSACTIONS, NOTIFICATIONS

TxInputs == [userId : Users, amount : {-12}, type : {"reward_redeemed"}]
NotifInputs == [userId : Users, type : {"pickup_update"}, isRead : BOOLEAN]

AddCreditTransaction(data) ==
    /\ Commit("addCreditTransaction")
    /\ creditTransactions' = Append(creditTransactions, data)
    /\ UNCHANGED <<profiles, pickups, pickupItems, notifications,
                   awards, submits>>

CreateNotification(data) ==
    /\ Commit("createNotification")
    /\ notifications' = Append(notifications, Merge(data, [isRead |-> FALSE]))
    /\ UNCHANGED <<profiles, pickups, pickupItems, creditTransactions,
                   awards, submits>>

MarkNotificationAsRead(notificationId) ==
    \/ /\ notificationId \in DOMAIN notifications
       /\ Commit("markNotificationAsRead")
       /\ notifications' = UpdateDoc(notifications, notificationId,
                                     [isRead |-> TRUE])
       /\ UNCHANGED <<profiles, pickups, pickupItems, creditTransactions,
                      awards, submits>>
    \/ /\ notificationId \notin DOMAIN notifications
       /\ Reject("markNotificationAsRead", "not-found")
       /\ UNCHANGED <<awards, submits>>

----------------------------------------------------------------------------
\* BUSINESS LOGIC: completePickupAndAwardCredits

\* the smartphones category's co2SavedPerKg (2.5) in place of the fixed 1.5
Co2SavedPerCategory(w) == w * 25

\* hundredths of a kilogram of CO2 for w tenths of a kilogram: w * 1.5
Co2Saved(w) == w * 15

\* the call without the exists() test: a missing request yields an undefined
\* snapshot and the call goes on to fill the batch
AwardReadUnchecked(slot, pickupId, actualWeightKg, actualCredits) ==
    /\ awards[slot] = Null
    /\ awards' = [awards EXCEPT ![slot] =
          Some([pickupId |-> pickupId,
                actualWeightKg |-> actualWeightKg,
                actualCredits |-> actualCredits,
                donorId |-> IF pickupId \in DOMAIN pickups
                            THEN pickups[pickupId].donorId ELSE "undefined",
                totalItems |-> IF pickupId \in DOMAIN pickups
                               THEN pickups[pickupId].totalItems ELSE 0])]
    /\ UNCHANGED <<db, submits, now, outcome, scanner, client>>

\* the call up to the resolution of getDoc(pickupRef): a missing request
\* throws 'Pickup not found' and the call ends there; otherwise donorId and
\* totalItems are taken from the snapshot and the batch is filled
AwardRead(slot, pickupId, actualWeightKg, actualCredits) ==
    /\ awards[slot] = Null
    /\ \/ /\ pickupId \in DOMAIN pickups
                      /\ awards' = [awards EXCEPT ![slot] =
                           Some([pickupId |-> pickupId,
                                 actualWeightKg |-> actualWeightKg,
                                 actualCredits |-> actualCredits,
                                 donorId |-> pickups[pickupId].donorId,
                                 totalItems |-> pickups[pickupId].totalItems])]
          /\ UNCHANGED <<db, submits, now, outcome, scanner, client>>
       \/ /\ pickupId \notin DOMAIN pickups
          /\ Reject("completePickupAndAwardCredits", "Pickup not found")
          /\ UNCHANGED <<awards, submits>>

AwardPickupData(call) ==
    [status |-> "completed",
     actualWeightKg |-> Some(call.actualWeightKg),
     actualCreditsAwarded |-> Some(call.actualCredits),
     completedAt |-> ServerTimestamp]

\* the profile written with the award's values (a write of values the
\* caller computed from an earlier read, here of the zero profile) instead
\* of server-side increments
AwardProfileOverwrite(profile, call) ==
    Merge(profile,
          [greenCredits |-> call.actualCredits,
           totalItemsRecycled |-> call.totalItems,
           totalWeightKg |-> call.actualWeightKg,
           co2SavedKg |-> Co2Saved(call.actualWeightKg)])

AwardProfile(profile, call) ==
    Increment(
      Increment(
        Increment(
          Increment(profile, "greenCredits", call.actualCredits),
          "totalItemsRecycled", call.totalItems),
        "totalWeightKg", call.actualWeightKg),
      "co2SavedKg", Co2Saved(call.actualWeightKg))

AwardTransaction(call) ==
    [userId |-> call.donorId,
     amount |-> call.actualCredits,
     type |-> "pickup_completed",
     referenceId |-> call.pickupId]

AwardNotification(call) ==
    [userId |-> call.donorId,
     type |-> "credit_earned",
     data |-> [amount |-> call.actualCredits, pickupId |-> call.pickupId]]

\* the request, profile and ledger writes committed, the notification not
\* written: what separate writes would leave when the last one fails
BatchApplyWithoutNotification(call) ==
    /\ pickups' = UpdateDoc(pickups, call.pickupId, AwardPickupData(call))
    /\ profiles' = [profiles EXCEPT
                      ![call.donorId] = AwardProfile(profiles[call.donorId], call)]
    /\ creditTransactions' = Append(creditTransactions, AwardTransaction(call))
    /\ UNCHANGED <<notifications, pickupItems>>

\* the batch written only while the request is still collected (a
\* conditional write); committed on any other status it changes nothing
BatchApplyIfCollected(call) ==
    IF pickups[call.pickupId].status = "collected"
    THEN /\ pickups' = UpdateDoc(pickups, call.pickupId, AwardPickupData(call))
         /\ profiles' = [profiles EXCEPT
                           ![call.donorId] = AwardProfile(profiles[call.donorId], call)]
         /\ creditTransactions' = Append(creditTransactions, AwardTransaction(call))
         /\ notifications' = Append(notifications, AwardNotification(call))
         /\ UNCHANGED pickupItems
    ELSE UNCHANGED db

\* the four writes of the batch, applied together
BatchApply(call) ==
    /\ pickups' = UpdateDoc(pickups, call.pickupId, AwardPickupData(call))
    /\ profiles' = [profiles EXCEPT
                      ![call.donorId] = AwardProfile(profiles[call.donorId], call)]
    /\ creditTransactions' = Append(creditTransactions, AwardTransaction(call))
    /\ notifications' = Append(notifications, AwardNotification(call))
    /\ UNCHANGED pickupItems

\* batch.commit() resolves.  A batch whose update() names a missing
\* document is rejected as a whole.
AwardCommit(slot) ==
    /\ awards[slot] # Null
    /\ Commit("completePickupAndAwardCredits")
    /\ LET call == awards[slot][1]
       IN  /\ call.donorId \in DOMAIN profiles
                         /\ BatchApply(call)
    /\ awards' = [awards EXCEPT ![slot] = Null]
    /\ UNCHANGED submits

\* batch.commit() rejects (unavailable, or an updated document is missing)
AwardCommitFail(slot) ==
    /\ awards[slot] # Null
    /\ awards' = [awards EXCEPT ![slot] = Null]
    /\ Reject("completePickupAndAwardCredits", "unavailable")
    /\ UNCHANGED submits

----------------------------------------------------------------------------
\* identities a caller can name: those of the documents a collection can
\* hold and one (the last) that names no document while a write is still
\* possible.
PickupIds == 1..(MaxPickups + 1)
NotificationIds == 1..MaxTime

Next ==
    \/ \E u \in Users, data \in ProfileInputs : CreateProfile(u, data)
    \/ \E u \in Users, data \in ProfileUpdates : UpdateProfile(u, data)
    \/ \E u \in Users, items \in FormItemLists : SubmitCreatePickup(u, items)
    \/ \E u \in Users : SubmitAddItems(u)
    \/ \E u \in Users : SubmitAddItemsFail(u)
    \/ \E p \in PickupIds, s \in PickupStatus, a \in AdditionalData :
          UpdatePickupStatus(p, s, a)
    \/ \E p \in PickupIds, c \in Collectors : AcceptPickup(p, c)
    \/ \E data \in TxInputs : AddCreditTransaction(data)
    \/ \E data \in NotifInputs : CreateNotification(data)
    \/ \E n \in NotificationIds : MarkNotificationAsRead(n)
    \/ \E slot \in Collectors, p \in PickupIds,
          w \in AwardWeights, c \in AwardCredits : AwardRead(slot, p, w, c)
    \/ \E slot \in Collectors : AwardCommit(slot)
    \/ \E slot \in Collectors : AwardCommitFail(slot)

Spec == Init /\ [][Next]_vars

----------------------------------------------------------------------------
\* REQUEST CREATION ON ANY ITEM LIST
\*
\* handleSubmit, createPickup and addPickupItems test nothing about the
\* items: the non-empty test and the quantity floor are in the
\* StepSelectItems widget alone.  formData.items is an array of any length
\* (initially empty) of items whose quantity is a number.

RequestItemLists ==
    FormItemLists \cup {<<>>, <<FormItem("smartphones", 0)>>}

NextRequest ==
    \/ \E u \in Users, data \in ProfileInputs : CreateProfile(u, data)
    \/ \E u \in Users, items \in RequestItemLists : SubmitCreatePickup(u, items)
    \/ \E u \in Users : SubmitAddItems(u)
    \/ \E u \in Users : SubmitAddItemsFail(u)
    \/ \E p \in PickupIds, s \in PickupStatus, a \in AdditionalData :
          UpdatePickupStatus(p, s, a)
    \/ \E p \in PickupIds, c \in Collectors : AcceptPickup(p, c)

SpecRequest == Init /\ [][NextRequest]_vars

----------------------------------------------------------------------------
\* A REQUEST FROM CREATION TO ITS AWARD
\*
\* The services that take a donor and a request up to completion: the
\* profile, the form's submission, the status changes, acceptance and the
\* award, from the empty database.

NextAward ==
    \/ \E u \in Users, data \in ProfileInputs : CreateProfile(u, data)
    \/ \E u \in Users, data \in ProfileUpdates : UpdateProfile(u, data)
    \/ \E u \in Users, items \in FormItemLists : SubmitCreatePickup(u, items)
    \/ \E u \in Users : SubmitAddItems(u)
    \/ \E p \in PickupIds, s \in PickupStatus, a \in AdditionalData :
          UpdatePickupStatus(p, s, a)
    \/ \E p \in PickupIds, c \in Collectors : AcceptPickup(p, c)
    \/ \E slot \in Collectors, p \in PickupIds,
          w \in AwardWeights, c \in AwardCredits : AwardRead(slot, p, w, c)
    \/ \E slot \in Collectors : AwardCommit(slot)
    \/ \E slot \in Collectors : AwardCommitFail(slot)

SpecAward == Init /\ [][NextAward]_vars

----------------------------------------------------------------------------
\* COMPLETION OF A COLLECTED REQUEST
\*
\* The database once a donor's request has been created with its items and
\* brought to 'collected'; both collectors' sessions may then complete it.
\* Time is counted from here on: the collected stamp is one tick back.

CollectedItems == <<FormItem("smartphones", 2)>>

InitCollected ==
    /\ profiles = SetDoc(NoData, "u1", ProfileData([fullName |-> "Ann"]))
    /\ pickups = <<Merge(NewPickup("u1", CollectedItems),
                         [status |-> "collected", collectedAt |-> Some(-1)])>>
    /\ pickupItems = [n \in DOMAIN CollectedItems |->
                         NewPickupItem(1, CollectedItems[n])]
    /\ creditTransactions = <<>>
    /\ notifications = <<>>
    /\ awards = [c \in Collectors |-> Null]
    /\ submits = [u \in Users |-> Null]
    /\ now = 0
    /\ outcome = [call |-> "updatePickupStatus", result |-> "ok"]
    /\ predictions = <<>>
    /\ result = Null
    /\ ClientInit

NextCollected ==
    \/ \E slot \in Collectors, p \in PickupIds,
          w \in AwardWeights, c \in AwardCredits : AwardRead(slot, p, w, c)
    \/ \E slot \in Collectors : AwardCommit(slot)
    \/ \E slot \in Collectors : AwardCommitFail(slot)

SpecCollected == InitCollected /\ [][NextCollected]_vars

----------------------------------------------------------------------------
\* E-WASTE SCANNER (useEwasteScanner)
\*
\* Class names are strings; probabilities are in hundredths, so that the
\* threshold 0.1 is 10.

\* Object.entries(EWASTE_LABEL_MAP): the entries in insertion order
EWASTE_LABEL_MAP ==
    <<[key |-> "cellular_telephone", category |-> "Smartphones & Tablets", slug |-> "smartphones"],
      [key |-> "cell_phone", category |-> "Smartphones & Tablets", slug |-> "smartphones"],
      [key |-> "smartphone", category |-> "Smartphones & Tablets", slug |-> "smartphones"],
      [key |-> "iPod", category |-> "Smartphones & Tablets", slug |-> "smartphones"],
      [key |-> "tablet", category |-> "Smartphones & Tablets", slug |-> "smartphones"],
      [key |-> "laptop", category |-> "Laptops & Computers", slug |-> "laptops"],
      [key |-> "notebook", category |-> "Laptops & Computers", slug |-> "laptops"],
      [key |-> "desktop_computer", category |-> "Laptops & Computers", slug |-> "laptops"],
      [key |-> "monitor", category |-> "Laptops & Computers", slug |-> "laptops"],
      [key |-> "screen", category |-> "Laptops & Computers", slug |-> "laptops"],
      [key |-> "keyboard", category |-> "Laptops & Computers", slug |-> "laptops"],
      [key |-> "mouse", category |-> "Laptops & Computers", slug |-> "laptops"],
      [key |-> "computer_keyboard", category |-> "Laptops & Computers", slug |-> "laptops"],
      [key |-> "television", category |-> "TVs & Displays", slug |-> "displays"],
      [key |-> "TV", category |-> "TVs & Displays", slug |-> "displays"],
      [key |-> "digital_clock", category |-> "TVs & Displays", slug |-> "displays"],
      [key |-> "headphone", category |-> "Audio & Wearables", slug |-> "audio"],
      [key |-> "earphone", category |-> "Audio & Wearables", slug |-> "audio"],
      [key |-> "speaker", category |-> "Audio & Wearables", slug |-> "audio"],
      [key |-> "loudspeaker", category |-> "Audio & Wearables", slug |-> "audio"],
      [key |-> "digital_watch", category |-> "Audio & Wearables", slug |-> "audio"],
      [key |-> "joystick", category |-> "Gaming Consoles", slug |-> "gaming"],
      [key |-> "remote_control", category |-> "Gaming Consoles", slug |-> "gaming"],
      [key |-> "printer", category |-> "Printers & Scanners", slug |-> "printers"],
      [key |-> "modem", category |-> "Networking Equipment", slug |-> "networking"],
      [key |-> "router", category |-> "Networking Equipment", slug |-> "networking"],
      [key |-> "microwave", category |-> "Kitchen Appliances", slug |-> "kitchen"],
      [key |-> "toaster", category |-> "Kitchen Appliances", slug |-> "kitchen"],
      [key |-> "coffee_maker", category |-> "Kitchen Appliances", slug |-> "kitchen"],
      [key |-> "electric_fan", category |-> "Kitchen Appliances", slug |-> "kitchen"],
      [key |-> "iron", category |-> "Kitchen Appliances", slug |-> "kitchen"],
      [key |-> "vacuum", category |-> "Kitchen Appliances", slug |-> "kitchen"],
      [key |-> "washer", category |-> "Kitchen Appliances", slug |-> "kitchen"],
      [key |-> "refrigerator", category |-> "Kitchen Appliances", slug |-> "kitchen"],
      [key |-> "power_cord", category |-> "Cables & Chargers", slug |-> "cables"],
      [key |-> "plug", category |-> "Cables & Chargers", slug |-> "cables"],
      [key |-> "adapter", category |-> "Cables & Chargers", slug |-> "cables"],
      [key |-> "battery", category |-> "Batteries", slug |-> "batteries"]>>

\* the 10% threshold
Threshold == 10

\* predictions the classifier returns at most
MaxPredictions == 2

\* class names of the classifier and probabilities it may give them
ClassNames ==
    {"banana", "desk", "iPod", "tabby, tabby cat", "laptop, laptop computer",
     "remote control, remote"}
Probabilities == {5, 10, 50, 90}

\* classify(imageElement, 5) answers with distinct classes, most probable
\* first, the probabilities adding up to no more than 1
PredictionLists ==
    {l \in UNION {[1..n -> [className : ClassNames, probability : Probabilities]] :
                     n \in 0..MaxPredictions} :
        /\ \A i, j \in DOMAIN l :
              i < j => /\ l[i].probability >= l[j].probability
                       /\ l[i].className # l[j].className
        /\ Sum([i \in DOMAIN l |-> l[i].probability]) <= 100}

\* String.prototype.toLowerCase
UpperCase == "ABCDEFGHIJKLMNOPQRSTUVWXYZ"
LowerCase == "abcdefghijklmnopqrstuvwxyz"
RECURSIVE ToLowerCase(_)
ToLowerCase(s) ==
    IF s = "" THEN ""
    ELSE LET c == SubSeq(s, 1, 1)
             up == {i \in 1..Len(UpperCase) : SubSeq(UpperCase, i, i) = c}
             lc == IF up = {} THEN c
                   ELSE LET i == CHOOSE i \in up : TRUE
                        IN  SubSeq(LowerCase, i, i)
         IN  lc \o ToLowerCase(SubSeq(s, 2, Len(s)))

\* s.replace(/[,_]/g, ' ')
RECURSIVE ReplaceSeparators(_)
ReplaceSeparators(s) ==
    IF s = "" THEN ""
    ELSE LET c == SubSeq(s, 1, 1)
         IN  (IF c \in {",", "_"} THEN " " ELSE c)
                 \o ReplaceSeparators(SubSeq(s, 2, Len(s)))

\* s.split(' '): the pieces between single spaces, the empty ones included
RECURSIVE Split(_)
Split(s) ==
    LET spaces == {i \in 1..Len(s) : SubSeq(s, i, i) = " "}
    IN  IF spaces = {} THEN <<s>>
        ELSE LET i == CHOOSE i \in spaces : \A j \in spaces : i <= j
             IN  <<SubSeq(s, 1, i - 1)>> \o Split(SubSeq(s, i + 1, Len(s)))

\* pred.className.toLowerCase().replace(/[,_]/g, ' ').split(' ')
Words(className) == Split(ReplaceSeparators(ToLowerCase(className)))

\* s.includes(t)
Includes(s, t) ==
    \E i \in 0..(Len(s) - Len(t)) : SubSeq(s, i + 1, i + Len(t)) = t

\* key.toLowerCase() of every entry
LowerKeys ==
    [n \in DOMAIN EWASTE_LABEL_MAP |-> ToLowerCase(EWASTE_LABEL_MAP[n].key)]

\* word.includes(key.toLowerCase()) || key.toLowerCase().includes(word)
KeyMatches(word, n) ==
    Includes(word, LowerKeys[n]) \/ Includes(LowerKeys[n], word)

\* the inner loop: the first entry, in map order, that word matches (0: none)
FirstKey(word) ==
    LET hits == {n \in DOMAIN EWASTE_LABEL_MAP : KeyMatches(word, n)}
    IN  IF hits = {} THEN 0
        ELSE CHOOSE n \in hits : \A m \in hits : n <= m

\* the entry found with the loops the other way round: map entries outer,
\* words inner
HitKeysOuter(className) ==
    LET words == Words(className)
        hits == {n \in DOMAIN EWASTE_LABEL_MAP :
                    \E i \in DOMAIN words : KeyMatches(words[i], n)}
    IN  IF hits = {} THEN 0
        ELSE CHOOSE n \in hits : \A m \in hits : n <= m

\* the middle and inner loops on one prediction: the entry of the first
\* match, words outer, map entries inner (0: no word matches any entry)
Hit(className) ==
    LET words == Words(className)
        hits == {i \in DOMAIN words : FirstKey(words[i]) # 0}
    IN  IF hits = {} THEN 0
        ELSE FirstKey(words[CHOOSE i \in hits : \A j \in hits : i <= j])

\* pred.probability >= 0.1 in place of >
GateInclusive(pred) == pred.probability >= Threshold

\* pred.probability > 0.1
Gate(pred) == pred.probability > Threshold

\* bestMatch as initialised from the last prediction instead of the first
NoMatchLast(preds) ==
    [label |-> IF preds # <<>> /\ preds[Len(preds)].className # ""
               THEN preds[Len(preds)].className ELSE "Unknown",
     confidence |-> IF preds # <<>> THEN preds[Len(preds)].probability ELSE 0,
     isEwaste |-> FALSE,
     category |-> Null,
     categorySlug |-> Null,
     allPredictions |-> preds]

\* bestMatch as initialised: predictions[0]?.className || 'Unknown',
\* predictions[0]?.probability || 0
NoMatch(preds) ==
    [label |-> IF preds # <<>> /\ preds[1].className # ""
               THEN preds[1].className ELSE "Unknown",
     confidence |-> IF preds # <<>> THEN preds[1].probability ELSE 0,
     isEwaste |-> FALSE,
     category |-> Null,
     categorySlug |-> Null,
     allPredictions |-> preds]

\* bestMatch as assigned at a match that passes the gate
Match(pred, n, preds) ==
    [label |-> pred.className,
     confidence |-> pred.probability,
     isEwaste |-> TRUE,
     category |-> Some(EWASTE_LABEL_MAP[n].category),
     categorySlug |-> Some(EWASTE_LABEL_MAP[n].slug),
     allPredictions |-> preds]

\* the outer loop from prediction i on.  The gate is tested at every match
\* and a failed test goes on to the next entry; it depends on the
\* prediction alone, so a prediction returns at its first match or not at
\* all.
RECURSIVE ScanFrom(_, _)
ScanFrom(preds, i) ==
    IF i > Len(preds) THEN NoMatch(preds)
    ELSE LET pred == preds[i]
             n == Hit(pred.className)
         IN  IF n # 0 /\ Gate(pred) THEN Match(pred, n, preds)
             ELSE ScanFrom(preds, i + 1)

BestMatch(preds) == ScanFrom(preds, 1)

\* scanImage from the resolution of classify(): setResult(bestMatch)
ScanImage ==
    /\ result' = Some(BestMatch(predictions))
    /\ UNCHANGED <<db, awards, submits, now, outcome, predictions, client>>

\* resetScan: setResult(null)
ResetScan ==
    /\ result' = Null
    /\ UNCHANGED <<db, awards, submits, now, outcome, predictions, client>>

\* the hook as mounted, before a frame whose classification is any of the
\* prediction lists
InitScan ==
    /\ profiles = NoData
    /\ pickups = <<>>
    /\ pickupItems = <<>>
    /\ creditTransactions = <<>>
    /\ notifications = <<>>
    /\ awards = [c \in Collectors |-> Null]
    /\ submits = [u \in Users |-> Null]
    /\ now = 0
    /\ outcome = [call |-> "none", result |-> "ok"]
    /\ predictions \in PredictionLists
    /\ result = Null
    /\ ClientInit

NextScan ==
    \/ ScanImage
    \/ ResetScan

SpecScan == InitScan /\ [][NextScan]_vars

----------------------------------------------------------------------------
\* Vocabulary of the properties

Slots == Collectors

\* the lifecycle of the design: one forward chain, cancelled from any
\* non-terminal state
ForwardEdges ==
    {<<"pending", "matched">>, <<"matched", "collector_enroute">>,
     <<"collector_enroute", "arrived">>, <<"arrived", "inspecting">>,
     <<"inspecting", "collected">>, <<"collected", "completed">>}
Terminal == {"completed", "cancelled"}
LegalEdge(x, y) ==
    \/ <<x, y>> \in ForwardEdges
    \/ y = "cancelled" /\ x \notin Terminal

\* slot's completePickupAndAwardCredits call settles in this step
AwardSettles(slot) == awards[slot] # Null /\ awards'[slot] = Null
Call(slot) == awards[slot][1]

\* sum of the amounts of userId's ledger entries
LedgerSum(userId) ==
    Sum([n \in DOMAIN creditTransactions |->
            IF creditTransactions[n].userId = userId
            THEN creditTransactions[n].amount ELSE 0])

\* sum of the quantities of the items stored for pickupId
StoredQuantity(pickupId) ==
    Sum([n \in DOMAIN pickupItems |->
            IF pickupItems[n].pickupId = pickupId
            THEN pickupItems[n].quantity ELSE 0])

----------------------------------------------------------------------------
\* C1: the status of a stored request changes only along one forward edge
\* of the lifecycle, or into cancelled from a non-terminal state; any other
\* requested change leaves the stored status as it was.
C1_OnlyLegalTransitions ==
    [][\A p \in DOMAIN pickups :
          pickups'[p].status # pickups[p].status
              => LegalEdge(pickups[p].status, pickups'[p].status)]_vars

\* C2: a completePickupAndAwardCredits call on a request whose status is
\* not collected changes no request, profile, ledger or notification record.
C2_CompleteOnlyFromCollected ==
    [][\A s \in Slots :
          (AwardSettles(s) /\ pickups[Call(s).pickupId].status # "collected")
              => db' = db]_vars

\* C3: a completePickupAndAwardCredits call on a request that an earlier
\* call has already completed and credited adds no ledger entry and no
\* notification and leaves every profile as it was.
C3_NoReplay ==
    [][\A s \in Slots :
          (/\ AwardSettles(s)
           /\ pickups[Call(s).pickupId].status = "completed"
           /\ pickups[Call(s).pickupId].actualCreditsAwarded # Null)
              => /\ creditTransactions' = creditTransactions
                 /\ notifications' = notifications
                 /\ profiles' = profiles]_vars

\* the four effects of the award of call, read off the step
RequestCompleted(call) ==
    LET p == call.pickupId
    IN  /\ pickups'[p].status = "completed"
        /\ pickups'[p].actualWeightKg = Some(call.actualWeightKg)
        /\ pickups'[p].actualCreditsAwarded = Some(call.actualCredits)
        /\ pickups'[p].completedAt # Null
ProfileIncremented(call) ==
    LET d == call.donorId
    IN  /\ d \in DOMAIN profiles
        /\ profiles'[d].greenCredits =
               profiles[d].greenCredits + call.actualCredits
        /\ profiles'[d].totalWeightKg =
               profiles[d].totalWeightKg + call.actualWeightKg
LedgerEntryAdded(call) ==
    /\ Len(creditTransactions') = Len(creditTransactions) + 1
    /\ SubSeq(creditTransactions', 1, Len(creditTransactions)) = creditTransactions
    /\ creditTransactions'[Len(creditTransactions')].referenceId = call.pickupId
NotificationAdded(call) ==
    /\ Len(notifications') = Len(notifications) + 1
    /\ SubSeq(notifications', 1, Len(notifications)) = notifications
    /\ notifications'[Len(notifications')].data.pickupId = call.pickupId

\* C4: a completePickupAndAwardCredits call settles either with all four
\* effects of the award in place (request completed with the actual weight
\* and credits, profile incremented, one ledger entry, one notification) or
\* with no record of the database changed.
C4_AwardAllOrNothing ==
    [][\A s \in Slots :
          AwardSettles(s)
              => \/ /\ RequestCompleted(Call(s))
                    /\ ProfileIncremented(Call(s))
                    /\ LedgerEntryAdded(Call(s))
                    /\ NotificationAdded(Call(s))
                 \/ db' = db]_vars

\* one award has been committed (its request, ledger entry and notification
\* are stored and the donor's balance is the awarded amount) and the call
\* settled last is an award whose commit was rejected
C4_Witness ==
    /\ outcome = [call |-> "completePickupAndAwardCredits",
                  result |-> "unavailable"]
    /\ \E p \in DOMAIN pickups :
        /\ pickups[p].status = "completed"
        /\ pickups[p].actualCreditsAwarded # Null
        /\ \E i \in DOMAIN creditTransactions :
              /\ creditTransactions[i].type = "pickup_completed"
              /\ creditTransactions[i].referenceId = p
        /\ \E n \in DOMAIN notifications :
              /\ notifications[n].type = "credit_earned"
              /\ notifications[n].data.pickupId = p
        /\ profiles[pickups[p].donorId].greenCredits =
               pickups[p].actualCreditsAwarded[1]
        /\ Len(creditTransactions) = 1
        /\ Len(notifications) = 1

\* C5: a completePickupAndAwardCredits(p, w, c) call that commits on a
\* collected request adds c to the donor's greenCredits, the request's
\* totalItems to totalItemsRecycled, w to totalWeightKg and 1.5 * w to
\* co2SavedKg, leaves the rest of the profile and every other profile as
\* they were, appends exactly one ledger entry (amount c, owner the donor,
\* reference p) and exactly one notification to the donor, and sets the
\* request to completed with actualWeightKg = w, actualCreditsAwarded = c.
C5_AwardEffects ==
    [][\A s \in Slots :
          (/\ AwardSettles(s)
           /\ db' # db
           /\ pickups[Call(s).pickupId].status = "collected")
              => LET call == Call(s)
                     p == call.pickupId
                     d == pickups[p].donorId
                     w == call.actualWeightKg
                     c == call.actualCredits
                 IN  /\ profiles' = [profiles EXCEPT ![d] =
                            [profiles[d] EXCEPT
                               !.greenCredits = @ + c,
                               !.totalItemsRecycled = @ + pickups[p].totalItems,
                               !.totalWeightKg = @ + w,
                               !.co2SavedKg = @ + (15 * w)]]
                     /\ creditTransactions' =
                            Append(creditTransactions,
                                   [userId |-> d, amount |-> c,
                                    type |-> "pickup_completed",
                                    referenceId |-> p])
                     /\ Len(notifications') = Len(notifications) + 1
                     /\ SubSeq(notifications', 1, Len(notifications)) = notifications
                     /\ notifications'[Len(notifications')].userId = d
                     /\ pickups'[p].status = "completed"
                     /\ pickups'[p].actualWeightKg = Some(w)
                     /\ pickups'[p].actualCreditsAwarded = Some(c)]_vars

\* the four commits profile, request, collected, award in this order: the
\* award was committed on a collected request
C5_Witness ==
    /\ now = 4
    /\ Len(pickups) = 1
    /\ pickups[1].collectedAt = Some(2)
    /\ pickups[1].completedAt = Some(3)
    /\ pickups[1].status = "completed"
    /\ pickups[1].actualWeightKg = Some(5)
    /\ pickups[1].actualCreditsAwarded = Some(12)
    /\ Len(creditTransactions) = 1
    /\ creditTransactions[1].type = "pickup_completed"
    /\ profiles[pickups[1].donorId].co2SavedKg = 75

\* C6: for every user with a profile, the amounts of the user's ledger
\* entries add up to the profile's greenCredits.
C6_LedgerReconciles ==
    \A u \in DOMAIN profiles : LedgerSum(u) = profiles[u].greenCredits

\* C7: the collector of a request is set only by accepting a pending
\* request, which moves it to matched and stamps matchedAt; on a request in
\* any other status collectorId stays as it is.
C7_AcceptOnlyPending ==
    [][\A p \in DOMAIN pickups :
          pickups'[p].collectorId # pickups[p].collectorId
              => /\ pickups[p].status = "pending"
                 /\ pickups'[p].status = "matched"
                 /\ pickups'[p].matchedAt = Some(now)]_vars

\* C8: once the status of a request is completed or cancelled it never
\* changes again.
C8_TerminalStatesStay ==
    [][\A p \in DOMAIN pickups :
          pickups[p].status \in Terminal
              => pickups'[p].status = pickups[p].status]_vars

\* C9: actualWeightKg and actualCreditsAwarded are null until the step that
\* moves the request into completed, that step writes both, and once
\* written they never change.
C9_ActualsWrittenOnce ==
    [][\A p \in DOMAIN pickups :
          LET old == pickups[p]
              new == pickups'[p]
              entersCompleted ==
                  old.status # "completed" /\ new.status = "completed"
          IN  /\ entersCompleted
                    => /\ new.actualWeightKg # Null
                       /\ new.actualCreditsAwarded # Null
              /\ ~entersCompleted
                    => /\ new.actualWeightKg = old.actualWeightKg
                       /\ new.actualCreditsAwarded = old.actualCreditsAwarded
              /\ old.actualWeightKg # Null
                    => new.actualWeightKg = old.actualWeightKg
              /\ old.actualCreditsAwarded # Null
                    => new.actualCreditsAwarded = old.actualCreditsAwarded]_vars

\* C10: the totalItems of every stored request is the sum of the quantities
\* of the items stored for it.
C10_TotalItemsMatchItems ==
    \A p \in DOMAIN pickups : pickups[p].totalItems = StoredQuantity(p)

\* C11: a completePickupAndAwardCredits call with a negative actualWeightKg
\* or a negative actualCredits changes no record, and no award lowers the
\* donor's greenCredits, totalWeightKg or co2SavedKg.
C11_NegativeAwardRejected ==
    [][\A slot \in Slots :
          AwardSettles(slot)
              => /\ (Call(slot).actualWeightKg < 0 \/ Call(slot).actualCredits < 0)
                        => db' = db
                 /\ \A u \in DOMAIN profiles :
                        /\ profiles'[u].greenCredits >= profiles[u].greenCredits
                        /\ profiles'[u].totalWeightKg >= profiles[u].totalWeightKg
                        /\ profiles'[u].co2SavedKg >= profiles[u].co2SavedKg]_vars

\* C12: a request creation whose item list is empty or holds an item of
\* quantity below 1 writes nothing: no request and no item is created.
InvalidItems(items) ==
    items = <<>> \/ \E n \in DOMAIN items : items[n].quantity < 1

C13_MissingRequestNoWrite ==
    [][/\ \A slot \in Slots :
              awards'[slot] # Null
                  => awards'[slot][1].pickupId \in DOMAIN pickups'
       /\ (outcome' # outcome /\ outcome'.result = "Pickup not found")
              => /\ outcome'.call = "completePickupAndAwardCredits"
                 /\ db' = db
                 /\ awards' = awards]_vars

\* the call was made on a missing identity while a profile and another
\* request were stored
C13_Witness ==
    /\ outcome = [call |-> "completePickupAndAwardCredits",
                  result |-> "Pickup not found"]
    /\ Len(pickups) = 1
    /\ "u1" \in DOMAIN profiles
    /\ profiles["u1"].greenCredits = 0
    /\ creditTransactions = <<>>
    /\ notifications = <<>>

\* The badge tiers, lowest first
BadgeLevel == <<"seedling", "sprout", "tree", "forest", "earth_guardian">>

\* badgeLevelConfig: the ascending threshold table the dashboard reads
\* (minCredits, maxCredits per tier; a tier ends where the next begins and
\* the top tier has no end).  The thresholds are an instance of such a
\* table: what matters below is only that the lowest tier ends somewhere.
badgeLevelConfig ==
    [seedling       |-> [minCredits |-> 0,  maxCredits |-> <<10>>],
     sprout         |-> [minCredits |-> 10, maxCredits |-> <<20>>],
     tree           |-> [minCredits |-> 20, maxCredits |-> <<30>>],
     forest         |-> [minCredits |-> 30, maxCredits |-> <<40>>],
     earth_guardian |-> [minCredits |-> 40, maxCredits |-> <<>>]]

\* credits lies in the range of tier level
InTier(level, credits) ==
    /\ badgeLevelConfig[level].minCredits <= credits
    /\ \/ badgeLevelConfig[level].maxCredits = <<>>
       \/ credits < badgeLevelConfig[level].maxCredits[1]

\* C14: after an award the stored badgeLevel of every profile is the tier
\* whose range holds the profile's greenCredits.
C14_BadgeFollowsBalance ==
    [][\A slot \in Slots :
          AwardSettles(slot)
              => \A u \in DOMAIN profiles' :
                     InTier(profiles'[u].badgeLevel, profiles'[u].greenCredits)]_vars

\* C15: a request, when created, has status pending, no collector, null
\* actual weight and credits and null transition stamps; its totalItems is
\* the sum of the submitted quantities, its estimatedWeightKg the sum of
\* quantity x per-unit weight, its estimatedCredits that weight x 20 rounded
\* to the nearest integer.  One item of quantity 2 at 0.2 kg gives 0.4 kg
\* and 8 credits.
C15_CreatedRequestFields ==
    [][Len(pickups') = Len(pickups) + 1
          => LET new == pickups'[Len(pickups')]
                 items == submits'[new.donorId][1].items
                 quantity == Sum([n \in DOMAIN items |-> items[n].quantity])
                 weight == Sum([n \in DOMAIN items |->
                                   items[n].quantity * items[n].estimatedWeight])
             IN  /\ new.status = "pending"
                 /\ new.collectorId = Null
                 /\ new.actualWeightKg = Null
                 /\ new.actualCreditsAwarded = Null
                 /\ new.matchedAt = Null
                 /\ new.collectedAt = Null
                 /\ new.completedAt = Null
                 /\ new.totalItems = quantity
                 /\ new.estimatedWeightKg = weight
                 \* tenths of a kilogram x 20 = 2 x weight credits, in tenths 20 x weight
                 /\ 10 * new.estimatedCredits - 5 <= 20 * weight
                 /\ 20 * weight < 10 * new.estimatedCredits + 5
                 /\ items = <<[categoryId |-> "smartphones", quantity |-> 2,
                               estimatedWeight |-> 2]>>
                        => new.estimatedWeightKg = 4 /\ new.estimatedCredits = 8]_vars

\* the request of the example has just been created
C15_Witness ==
    /\ Len(pickups) = 1
    /\ submits["u1"] # Null
    /\ submits["u1"][1].items = <<FormItem("smartphones", 2)>>
    /\ pickups[1].status = "pending"
    /\ pickups[1].totalItems = 2
    /\ pickups[1].estimatedWeightKg = 4
    /\ pickups[1].estimatedCredits = 8

\* Scanner vocabulary: some word of the class name matches some map entry
HasMatch(className) ==
    LET words == Words(className)
    IN  \E i \in DOMAIN words, n \in DOMAIN EWASTE_LABEL_MAP :
            KeyMatches(words[i], n)

\* the least element of a non-empty set of numbers
Least(S) == CHOOSE n \in S : \A m \in S : n <= m

C18_OnlyRealWordsMatch ==
    (result # Null /\ result[1].isEwaste)
        => \E n \in DOMAIN predictions :
              /\ predictions[n].className = result[1].label
              /\ LET words == Words(predictions[n].className)
                 IN  \E i \in DOMAIN words, k \in DOMAIN EWASTE_LABEL_MAP :
                         words[i] # "" /\ KeyMatches(words[i], k)

C20_ConcurrentCompletionCreditsTwice ==
    [][\A slot \in Slots :
          (AwardSettles(slot) /\ now' = now + 1)
              => LET call == Call(slot)
                     others == {t \in Slots \ {slot} :
                                   /\ awards[t] # Null
                                   /\ awards[t][1].pickupId = call.pickupId}
                 IN  (others # {} \/ pickups[call.pickupId].status = "completed")
                         => /\ \A t \in others : awards'[t] = awards[t]
                            /\ creditTransactions' =
                                  Append(creditTransactions,
                                         [userId |-> call.donorId,
                                          amount |-> call.actualCredits,
                                          type |-> "pickup_completed",
                                          referenceId |-> call.pickupId])
                            /\ Len(notifications') = Len(notifications) + 1
                            /\ notifications'[Len(notifications')].userId = call.donorId
                            /\ profiles'[call.donorId].greenCredits =
                                  profiles[call.donorId].greenCredits
                                      + call.actualCredits]_vars

\* both calls on the collected request have committed, one right after the
\* other: two ledger entries and two notifications for the request, the
\* balance credited twice
C20_Witness ==
    /\ awards = [c \in Collectors |-> Null]
    /\ pickups[1].collectedAt = Some(-1)
    /\ pickups[1].status = "completed"
    /\ pickups[1].completedAt = Some(1)
    /\ now = 2
    /\ Len(creditTransactions) = 2
    /\ \A n \in 1..2 : /\ creditTransactions[n].referenceId = 1
                       /\ creditTransactions[n].type = "pickup_completed"
                       /\ creditTransactions[n].amount = 12
    /\ Len(notifications) = 2
    /\ \A n \in 1..2 : notifications[n].data.pickupId = 1
    /\ profiles["u1"].greenCredits = 24

----------------------------------------------------------------------------
\* Profile accumulators, notifications' read flag, completed requests

Accumulators ==
    {"greenCredits", "totalItemsRecycled", "totalWeightKg", "co2SavedKg"}

\* slot's award call commits in this step
AwardCommits(slot) ==
    /\ AwardSettles(slot)
    /\ outcome' = [call |-> "completePickupAndAwardCredits", result |-> "ok"]

\* C22: a profile's greenCredits, totalItemsRecycled, totalWeightKg and
\* co2SavedKg are zero when the profile is created, and on an existing
\* profile they change only in the step in which an award for that donor
\* commits.
C22_AccumulatorsOnlyByAward ==
    [][\A u \in Users :
          /\ (u \notin DOMAIN profiles /\ u \in DOMAIN profiles')
                => \A f \in Accumulators : profiles'[u][f] = 0
          /\ (u \in DOMAIN profiles /\ u \in DOMAIN profiles'
                /\ \E f \in Accumulators : profiles'[u][f] # profiles[u][f])
                => \E slot \in Slots :
                      AwardCommits(slot) /\ Call(slot).donorId = u]_vars

\* C23: a notification enters the collection with isRead = FALSE, whoever
\* creates it, and the flag of a stored notification changes only in a
\* markNotificationAsRead step, from FALSE to TRUE.
C23_NotificationsStartUnread ==
    [][/\ \A n \in DOMAIN notifications' \ DOMAIN notifications :
             /\ "isRead" \in DOMAIN notifications'[n]
             /\ notifications'[n].isRead = FALSE
       /\ \A n \in DOMAIN notifications :
             notifications'[n] # notifications[n]
                => /\ outcome'.call = "markNotificationAsRead"
                   /\ "isRead" \in DOMAIN notifications[n]
                   /\ notifications[n].isRead = FALSE
                   /\ notifications'[n] =
                         Merge(notifications[n], [isRead |-> TRUE])]_vars

\* C25: a completed request has a collector, the matchedAt, collectedAt and
\* completedAt stamps, and both actual values.
C25_CompletedHasStamps ==
    \A p \in DOMAIN pickups :
        pickups[p].status = "completed"
            => /\ pickups[p].collectorId # Null
               /\ pickups[p].matchedAt # Null
               /\ pickups[p].collectedAt # Null
               /\ pickups[p].completedAt # Null
               /\ pickups[p].actualWeightKg # Null
               /\ pickups[p].actualCreditsAwarded # Null

\* the 'pickup_completed' ledger entries that reference pickupId
CompletionEntries(pickupId) ==
    {n \in DOMAIN creditTransactions :
        /\ creditTransactions[n].type = "pickup_completed"
        /\ creditTransactions[n].referenceId = pickupId}

\* C26: every completed request is referenced by exactly one
\* 'pickup_completed' ledger entry, which carries the request's
\* actualCreditsAwarded and belongs to its donor, and every such entry
\* references a completed request.
C26_LedgerMatchesCompleted ==
    /\ \A p \in DOMAIN pickups :
          pickups[p].status = "completed"
             => /\ Cardinality(CompletionEntries(p)) = 1
                /\ \A n \in CompletionEntries(p) :
                      /\ Some(creditTransactions[n].amount) =
                            pickups[p].actualCreditsAwarded
                      /\ creditTransactions[n].userId = pickups[p].donorId
    /\ \A n \in DOMAIN creditTransactions :
          creditTransactions[n].type = "pickup_completed"
             => /\ creditTransactions[n].referenceId \in DOMAIN pickups
                /\ pickups[creditTransactions[n].referenceId].status = "completed"

----------------------------------------------------------------------------
\* COMPLETION OF TWO COLLECTED REQUESTS OF ONE DONOR
\*
\* The database once donor u1 has two requests, each created with its items
\* and brought to 'collected'; the collectors' sessions complete them in
\* any order and with any overlap.

SecondCollectedItems == <<FormItem("smartphones", 1), FormItem("batteries", 2)>>

InitTwoCollected ==
    /\ profiles = SetDoc(NoData, "u1", ProfileData([fullName |-> "Ann"]))
    /\ pickups = <<Merge(NewPickup("u1", CollectedItems),
                         [status |-> "collected", collectedAt |-> Some(-2)]),
                   Merge(NewPickup("u1", SecondCollectedItems),
                         [status |-> "collected", collectedAt |-> Some(-1)])>>
    /\ pickupItems = [n \in DOMAIN CollectedItems |->
                         NewPickupItem(1, CollectedItems[n])]
                     \o [n \in DOMAIN SecondCollectedItems |->
                            NewPickupItem(2, SecondCollectedItems[n])]
    /\ creditTransactions = <<>>
    /\ notifications = <<>>
    /\ awards = [c \in Collectors |-> Null]
    /\ submits = [u \in Users |-> Null]
    /\ now = 0
    /\ outcome = [call |-> "updatePickupStatus", result |-> "ok"]
    /\ predictions = <<>>
    /\ result = Null
    /\ ClientInit

\* the two stored requests and one identity that names no request
TwoCollectedIds == 1..3

NextTwoCollected ==
    \/ \E slot \in Collectors, p \in TwoCollectedIds,
          w \in AwardWeights, c \in AwardCredits : AwardRead(slot, p, w, c)
    \/ \E slot \in Collectors : AwardCommit(slot)
    \/ \E slot \in Collectors : AwardCommitFail(slot)

SpecTwoCollected == InitTwoCollected /\ [][NextTwoCollected]_vars

\* the requests of userId that the ledger's 'pickup_completed' entries name
AwardedRequests(userId) ==
    {creditTransactions[n].referenceId :
        n \in {m \in DOMAIN creditTransactions :
                  /\ creditTransactions[m].type = "pickup_completed"
                  /\ creditTransactions[m].userId = userId}}

RECURSIVE SumOver(_, _)
\* sum of f[x] over the finite set S
SumOver(f, S) ==
    IF S = {} THEN 0
    ELSE LET x == CHOOSE y \in S : TRUE
         IN  f[x] + SumOver(f, S \ {x})

\* C27: awards for different requests of one donor lose no update.  While
\* every committed award of the donor is for a request of its own, the
\* profile's four accumulators are their values at creation plus the sum
\* of the committed awards' increments, however the calls overlapped.
C27_ConcurrentAwardsAddUp ==
    \A u \in DOMAIN profiles :
        LET done == AwardedRequests(u)
            credits == [p \in done |-> pickups[p].actualCreditsAwarded[1]]
            items == [p \in done |-> pickups[p].totalItems]
            weight == [p \in done |-> pickups[p].actualWeightKg[1]]
        IN  Cardinality(done) = Len(creditTransactions)
               => /\ profiles[u].greenCredits = 0 + SumOver(credits, done)
                  /\ profiles[u].totalItemsRecycled = 0 + SumOver(items, done)
                  /\ profiles[u].totalWeightKg = 0 + SumOver(weight, done)
                  /\ profiles[u].co2SavedKg = 0 + 15 * SumOver(weight, done)

\* both requests completed by one award each: two ledger entries, the five
\* items and both credits on the profile
C27_Witness ==
    /\ awards = [c \in Collectors |-> Null]
    /\ Len(pickups) = 2
    /\ \A p \in 1..2 : pickups[p].status = "completed"
    /\ Len(creditTransactions) = 2
    /\ creditTransactions[1].referenceId # creditTransactions[2].referenceId
    /\ profiles["u1"].greenCredits = 24
    /\ profiles["u1"].totalItemsRecycled = 5
    /\ profiles["u1"].totalWeightKg = 10
    /\ profiles["u1"].co2SavedKg = 150

----------------------------------------------------------------------------
\* CLIENT STORE (useAppStore): notifications
\*
\* A notification in the store is its id and its read flag; the other
\* fields are never read by the store.

\* the longest list the store is taken to
MaxNotifications == 3

NotificationKeys == {"n1", "n2"}
StoreNotifications == [id : NotificationKeys, isRead : BOOLEAN]

\* what a fetch or a snapshot hands to setNotifications: notifications of
\* distinct ids
ServerNotificationLists ==
    {<<>>} \cup {<<n>> : n \in StoreNotifications}
           \cup {<<n, m>> : <<n, m>> \in
                    {q \in StoreNotifications \X StoreNotifications :
                        q[1].id # q[2].id}}

\* notifications.filter((n) => !n.isRead).length
Unread(list) == Cardinality({n \in DOMAIN list : ~list[n].isRead})

SetNotifications(list) ==
    /\ store' = [notifications |-> list, unreadCount |-> Unread(list)]
    /\ UNCHANGED <<services, scanner, installPrompt, rewards, auth, app, authPage>>

AddNotification(notification) ==
    /\ Len(store.notifications) < MaxNotifications
    /\ store' = [notifications |-> <<notification>> \o store.notifications,
                 unreadCount |-> store.unreadCount + 1]
    /\ UNCHANGED <<services, scanner, installPrompt, rewards, auth, app, authPage>>

\* Math.max(0, n)
Max0(n) == IF n < 0 THEN 0 ELSE n

MarkAsRead(id) ==
    /\ store' = [notifications |->
                    [n \in DOMAIN store.notifications |->
                        IF store.notifications[n].id = id
                        THEN Merge(store.notifications[n], [isRead |-> TRUE])
                        ELSE store.notifications[n]],
                 unreadCount |-> Max0(store.unreadCount - 1)]
    /\ UNCHANGED <<services, scanner, installPrompt, rewards, auth, app, authPage>>

\* an id the list holds or one it does not
MarkableIds == NotificationKeys \cup {"n3"}

NextStore ==
    \/ \E list \in ServerNotificationLists : SetNotifications(list)
    \/ \E n \in StoreNotifications : AddNotification(n)
    \/ \E id \in MarkableIds : MarkAsRead(id)

SpecStore == Init /\ [][NextStore]_vars

\* C29: in the store, unreadCount is the number of notifications of the
\* list whose isRead is false.
C29_UnreadCountMatchesList ==
    store.unreadCount = Unread(store.notifications)

----------------------------------------------------------------------------
\* PWA INSTALL PROMPT (PWAInstallPrompt)
\*
\* Date.now() is counted in whole days.  The 15 s and 30 s timeouts are
\* pending callbacks that fire at any later moment; a page reload discards
\* the component's state and its timers and keeps localStorage.

\* the last day the clock reaches
MaxDay == 8
\* the most timeouts pending at once
MaxTimers == 2

\* (Date.now() - parseInt(dismissed)) / (1000 * 60 * 60 * 24) < 7
DismissedWithin7Days(p) ==
    /\ p.pwaDismissed # Null
    /\ p.today - p.pwaDismissed[1] < 7

\* First render: the prompt effect (a 30 s timeout on an iOS device outside
\* standalone mode, then the beforeinstallprompt listener), then the
\* dismissal effect, which calls setShowPrompt(false).
MountPrompt ==
    /\ ~installPrompt.mounted
    /\ installPrompt' =
          [installPrompt EXCEPT
              !.mounted = TRUE,
              !.timers = IF installPrompt.iosDevice THEN @ + 1 ELSE @,
              !.showPrompt = IF DismissedWithin7Days(installPrompt)
                             THEN FALSE ELSE @]
    /\ UNCHANGED <<services, scanner, store, rewards, auth, app, authPage>>

\* handler: keep the event, show the prompt 15 s later
BeforeInstallPrompt ==
    /\ installPrompt.mounted
    /\ ~installPrompt.iosDevice
    /\ installPrompt.timers < MaxTimers
    /\ installPrompt' = [installPrompt EXCEPT !.deferredPrompt = TRUE,
                                              !.timers = @ + 1]
    /\ UNCHANGED <<services, scanner, store, rewards, auth, app, authPage>>

\* () => setShowPrompt(true)
TimerFires ==
    /\ installPrompt.timers > 0
    /\ installPrompt' = [installPrompt EXCEPT !.timers = @ - 1,
                                              !.showPrompt = TRUE]
    /\ UNCHANGED <<services, scanner, store, rewards, auth, app, authPage>>

PromptChoices == {"accepted", "dismissed"}

\* the install button, rendered in the shown prompt off iOS
HandleInstall(choice) ==
    /\ installPrompt.mounted
    /\ installPrompt.showPrompt
    /\ ~installPrompt.iosDevice
    /\ installPrompt' =
          IF ~installPrompt.deferredPrompt THEN installPrompt
          ELSE [installPrompt EXCEPT
                   !.showPrompt = IF choice = "accepted" THEN FALSE ELSE @,
                   !.deferredPrompt = FALSE]
    /\ UNCHANGED <<services, scanner, store, rewards, auth, app, authPage>>

\* the close button of the shown prompt
Dismiss ==
    /\ installPrompt.mounted
    /\ installPrompt.showPrompt
    /\ installPrompt' = [installPrompt EXCEPT
                            !.showPrompt = FALSE,
                            !.pwaDismissed = Some(installPrompt.today)]
    /\ UNCHANGED <<services, scanner, store, rewards, auth, app, authPage>>

DayPasses ==
    /\ installPrompt.today < MaxDay
    /\ installPrompt' = [installPrompt EXCEPT !.today = @ + 1]
    /\ UNCHANGED <<services, scanner, store, rewards, auth, app, authPage>>

\* the page is loaded anew: useState's initial values, no timers
ReloadPage ==
    /\ installPrompt.mounted
    /\ installPrompt' = [installPrompt EXCEPT
                            !.mounted = FALSE, !.showPrompt = FALSE,
                            !.deferredPrompt = FALSE, !.timers = 0]
    /\ UNCHANGED <<services, scanner, store, rewards, auth, app, authPage>>

\* the page before its first load, on an iOS device or on another one
InitPrompt ==
    /\ profiles = NoData
    /\ pickups = <<>>
    /\ pickupItems = <<>>
    /\ creditTransactions = <<>>
    /\ notifications = <<>>
    /\ awards = [c \in Collectors |-> Null]
    /\ submits = [u \in Users |-> Null]
    /\ now = 0
    /\ outcome = [call |-> "none", result |-> "ok"]
    /\ predictions = <<>>
    /\ result = Null
    /\ store = StoreInit
    /\ installPrompt \in {[InstallPromptInit EXCEPT !.iosDevice = b] :
                             b \in BOOLEAN}
    /\ rewards = RewardsInit
    /\ auth = AuthInit
    /\ app = AppInit
    /\ authPage = Null

NextPrompt ==
    \/ MountPrompt
    \/ BeforeInstallPrompt
    \/ TimerFires
    \/ \E choice \in PromptChoices : HandleInstall(choice)
    \/ Dismiss
    \/ DayPasses
    \/ ReloadPage

SpecPrompt == InitPrompt /\ [][NextPrompt]_vars

\* C24: the prompt is never shown while localStorage holds a 'pwa-dismissed'
\* time less than 7 days old.
C24_NotShownWhileDismissed ==
    installPrompt.showPrompt => ~DismissedWithin7Days(installPrompt)

----------------------------------------------------------------------------
\* REWARDS PAGE (RewardsPage): the load/subscribe effect
\*
\* One instance of the page, for the profile of u1, from mount to unmount.
\* getUserTransactions is a request the server answers at one moment and
\* whose answer reaches the page at a later one; the snapshot listener calls
\* back with the query's current result, first after subscribing and again
\* after every change of it.

RECURSIVE Reverse(_)
Reverse(seq) ==
    IF seq = <<>> THEN <<>> ELSE Reverse(Tail(seq)) \o <<Head(seq)>>

\* where('userId', '==', userId), orderBy('createdAt', 'desc'); limit(20)
\* cuts nothing off a ledger this short
UserTransactions(userId) ==
    Reverse(SelectSeq(creditTransactions, LAMBDA t : t.userId = userId))

\* the effect: loadData() is started, then the listener is opened
MountRewards(userId) ==
    /\ rewards = RewardsInit
    /\ rewards' = [rewards EXCEPT !.mounted = TRUE,
                                  !.fetch = [state |-> "sent", snapshot |-> <<>>],
                                  !.subscribed = TRUE]
    /\ UNCHANGED <<services, scanner, store, installPrompt, auth, app, authPage>>

\* getDocs(q) is evaluated by the server
FetchAnswered(userId) ==
    /\ rewards.fetch.state = "sent"
    /\ rewards' = [rewards EXCEPT
                      !.fetch = [state |-> "answered",
                                 snapshot |-> UserTransactions(userId)]]
    /\ UNCHANGED <<services, scanner, store, installPrompt, auth, app, authPage>>

\* loadData after its await: setTransactions(txs); setLoading(false)
FetchResolves ==
    /\ rewards.fetch.state = "answered"
    /\ rewards' = [rewards EXCEPT !.transactions = rewards.fetch.snapshot,
                                  !.loading = FALSE,
                                  !.fetch = [state |-> "done", snapshot |-> <<>>]]
    /\ UNCHANGED <<services, scanner, store, installPrompt, auth, app, authPage>>

\* onSnapshot calls setTransactions with the query's current result
DeliverTransactions(userId) ==
    /\ rewards.subscribed
    /\ rewards.delivered # Some(UserTransactions(userId))
    /\ rewards' = [rewards EXCEPT !.transactions = UserTransactions(userId),
                                  !.delivered = Some(UserTransactions(userId))]
    /\ UNCHANGED <<services, scanner, store, installPrompt, auth, app, authPage>>

\* the effect's cleanup: unsubTx()
UnmountRewards ==
    /\ rewards.mounted
    /\ rewards' = [rewards EXCEPT !.mounted = FALSE, !.subscribed = FALSE]
    /\ UNCHANGED <<services, scanner, store, installPrompt, auth, app, authPage>>

NextRewards ==
    \/ \E u \in Users : MountRewards(u)
    \/ \E u \in Users : FetchAnswered(u)
    \/ FetchResolves
    \/ \E u \in Users : DeliverTransactions(u)
    \/ UnmountRewards
    \/ \E data \in TxInputs : AddCreditTransaction(data)

SpecRewards == Init /\ [][NextRewards]_vars

\* C30: while the page is mounted the list it shows is never older (the
\* ledger only grows, so: never shorter) than the last snapshot its
\* listener delivered, and once the effect is cleaned up the list is not
\* set any more.
C30_FetchNeverOverwritesNewer ==
    [][/\ (rewards'.mounted /\ rewards'.delivered # Null)
             => Len(rewards'.transactions) >= Len(rewards'.delivered[1])
       /\ ~rewards.mounted
             => rewards'.transactions = rewards.transactions]_vars

----------------------------------------------------------------------------
\* SIGN-IN (AuthPage handlers, App's auth-state callback, snapshot listeners)
\*
\* A handler or callback is cut at its awaits.  A read (getDoc, getDocs) is
\* one step: the server's answer and the code up to the next request; a
\* write is one step: its commit and the code up to the next request.
\* onAuthStateChanged calls back as soon as the signed-in user changes, so
\* the callback's start is part of the sign-in or sign-out step.

\* the most snapshot listeners open at once
MaxListeners == 4

FullNames == {"Ann"}
\* what an OAuth provider gives as displayName: a name or none
DisplayNames == {Null, Some("Ann G")}

\* a commit by a handler or callback, which goes on to set client state
ClientCommit(call) ==
    /\ now < MaxTime
    /\ now' = now + 1
    /\ outcome' = [call |-> call, result |-> "ok"]
    /\ UNCHANGED scanner

\* firebaseUser.displayName || 'Eco Warrior'
DisplayNameOrDefault(uid) ==
    IF auth.accounts[uid] = Null THEN "Eco Warrior" ELSE auth.accounts[uid][1]

\* getProfile: snapshot.exists() ? snapshot.data() : null
GetProfile(uid) == IF uid \in DOMAIN profiles THEN Some(profiles[uid]) ELSE Null

\* getUserPickups / the query of subscribeToUserPickups:
\* where('donorId', '==', userId), orderBy('createdAt', 'desc'), each
\* document with its id
GetUserPickups(uid) ==
    Reverse(SelectSeq([n \in DOMAIN pickups |-> Merge(pickups[n], [id |-> n])],
                      LAMBDA p : p.donorId = uid))

\* a sign-in can start: nobody is signed in, no handler or callback is
\* running
CanSignIn ==
    /\ auth.currentUser = Null
    /\ authPage = Null
    /\ app.callback = Null
    /\ Len(app.listeners) + 2 <= MaxListeners

\* the auth-state callback called with firebaseUser: setUser, then
\* getProfile is requested
CallbackStarted(uid) ==
    [app EXCEPT !.user = Some(uid),
                !.callback = Some([pc |-> "getProfile", uid |-> uid,
                                   data |-> NoData])]

\* handleEmailAuth, sign-up: createUserWithEmailAndPassword resolves
EmailSignUp(uid, fullName) ==
    /\ CanSignIn
    /\ uid \notin DOMAIN auth.accounts
    /\ auth' = [currentUser |-> Some(uid),
                accounts |-> SetDoc(auth.accounts, uid, Null)]
    /\ authPage' = Some([pc |-> "updateProfile", uid |-> uid,
                         data |-> [fullName |-> fullName]])
    /\ app' = CallbackStarted(uid)
    /\ UNCHANGED <<services, scanner, store, installPrompt, rewards>>

\* handleEmailAuth: updateProfile(user, { displayName: fullName }) resolves
HandlerUpdateDisplayName ==
    /\ authPage # Null
    /\ authPage[1].pc = "updateProfile"
    /\ auth' = [auth EXCEPT !.accounts[authPage[1].uid] =
                               Some(authPage[1].data.fullName)]
    /\ authPage' = Some([authPage[1] EXCEPT !.pc = "createProfile"])
    /\ UNCHANGED <<services, scanner, store, installPrompt, rewards, app>>

\* either handler: createProfile commits, then onAuth(user)
HandlerCreateProfile ==
    /\ authPage # Null
    /\ authPage[1].pc = "createProfile"
    /\ ClientCommit("createProfile")
    /\ profiles' = SetDoc(profiles, authPage[1].uid, ProfileData(authPage[1].data))
    /\ app' = [app EXCEPT !.user = Some(authPage[1].uid)]
    /\ authPage' = Null
    /\ UNCHANGED <<pickups, pickupItems, creditTransactions, notifications,
                   awards, submits, store, installPrompt, rewards, auth>>

\* handleEmailAuth, sign-in: signInWithEmailAndPassword resolves, onAuth(user)
EmailSignIn(uid) ==
    /\ CanSignIn
    /\ uid \in DOMAIN auth.accounts
    /\ auth' = [auth EXCEPT !.currentUser = Some(uid)]
    /\ app' = CallbackStarted(uid)
    /\ UNCHANGED <<services, scanner, store, installPrompt, rewards, authPage>>

\* handleOAuth: signInWithPopup resolves; getProfile is requested
OAuthSignIn(uid, displayName) ==
    /\ CanSignIn
    /\ auth' = [currentUser |-> Some(uid),
                accounts |-> SetDoc(auth.accounts, uid, displayName)]
    /\ authPage' = Some([pc |-> "getProfile", uid |-> uid, data |-> NoData])
    /\ app' = CallbackStarted(uid)
    /\ UNCHANGED <<services, scanner, store, installPrompt, rewards>>

\* handleOAuth: getProfile answers; create the profile only if it is
\* missing, else onAuth(user)
HandlerGetProfile ==
    /\ authPage # Null
    /\ authPage[1].pc = "getProfile"
    /\ IF GetProfile(authPage[1].uid) = Null
       THEN /\ authPage' =
                  Some([authPage[1] EXCEPT
                          !.pc = "createProfile",
                          !.data = [fullName |->
                                       DisplayNameOrDefault(authPage[1].uid)]])
            /\ UNCHANGED app
       ELSE /\ authPage' = Null
            /\ app' = [app EXCEPT !.user = Some(authPage[1].uid)]
    /\ UNCHANGED <<services, scanner, store, installPrompt, rewards, auth>>

\* the callback after 'await getProfile': create the profile if the answer
\* was null, else setProfile and request the pickups
CallbackGetProfile ==
    /\ app.callback # Null
    /\ app.callback[1].pc = "getProfile"
    /\ LET cb == app.callback[1]
       IN  IF GetProfile(cb.uid) = Null
           THEN app' = [app EXCEPT
                           !.callback = Some([cb EXCEPT
                               !.pc = "createProfile",
                               !.data = [fullName |->
                                            DisplayNameOrDefault(cb.uid)]])]
           ELSE app' = [app EXCEPT
                           !.profile = GetProfile(cb.uid),
                           !.callback = Some([cb EXCEPT !.pc = "getUserPickups"])]
    /\ UNCHANGED <<services, scanner, store, installPrompt, rewards, auth, authPage>>

\* the callback's createProfile commits; setProfile(what createProfile
\* returns), then the pickups are requested
CallbackCreateProfile ==
    /\ app.callback # Null
    /\ app.callback[1].pc = "createProfile"
    /\ ClientCommit("createProfile")
    /\ LET cb == app.callback[1]
       IN  /\ profiles' = SetDoc(profiles, cb.uid, ProfileData(cb.data))
           /\ app' = [app EXCEPT
                         !.profile = Some(ProfileData(cb.data)),
                         !.callback = Some([cb EXCEPT !.pc = "getUserPickups",
                                                      !.data = NoData])]
    /\ UNCHANGED <<pickups, pickupItems, creditTransactions, notifications,
                   awards, submits, store, installPrompt, rewards, auth, authPage>>

\* a snapshot listener as opened: nothing delivered yet
Listener(kind, uid) == [kind |-> kind, uid |-> uid, delivered |-> Null]

\* the callback after 'await getUserPickups': setPickups, then the two
\* listeners are opened (what subscribeTo... returns is dropped), then
\* setLoading(false)
CallbackGetUserPickups ==
    /\ app.callback # Null
    /\ app.callback[1].pc = "getUserPickups"
    /\ LET cb == app.callback[1]
       IN  app' = [app EXCEPT
                      !.pickups = GetUserPickups(cb.uid),
                      !.listeners = @ \o <<Listener("profile", cb.uid),
                                           Listener("pickups", cb.uid)>>,
                      !.loading = FALSE,
                      !.callback = Null]
    /\ UNCHANGED <<services, scanner, store, installPrompt, rewards, auth, authPage>>

\* handleSignOut: signOut resolves and the auth-state callback runs with
\* null: setUser(null), setProfile(null), setPickups([]), setLoading(false)
SignOut ==
    /\ auth.currentUser # Null
    /\ auth' = [auth EXCEPT !.currentUser = Null]
    /\ app' = [app EXCEPT !.user = Null, !.profile = Null, !.pickups = <<>>,
                          !.loading = FALSE]
    /\ UNCHANGED <<services, scanner, store, installPrompt, rewards, authPage>>

\* what listener l's query or document holds now
Snapshot(l) ==
    IF l.kind = "profile" THEN GetProfile(l.uid) ELSE GetUserPickups(l.uid)

ListenerIds == 1..MaxListeners

\* onSnapshot calls back: first with the current state, later whenever it
\* has changed; the callback is setProfile or setPickups
DeliverSnapshot(i) ==
    /\ i \in DOMAIN app.listeners
    /\ LET l == app.listeners[i]
       IN  /\ l.delivered # Some(Snapshot(l))
           /\ app' = [app EXCEPT
                         !.listeners[i].delivered = Some(Snapshot(l)),
                         !.profile = IF l.kind = "profile" THEN Snapshot(l) ELSE @,
                         !.pickups = IF l.kind = "pickups" THEN Snapshot(l) ELSE @]
    /\ UNCHANGED <<services, scanner, store, installPrompt, rewards, auth, authPage>>

NextApp ==
    \/ \E u \in Users, name \in FullNames : EmailSignUp(u, name)
    \/ HandlerUpdateDisplayName
    \/ HandlerCreateProfile
    \/ \E u \in Users : EmailSignIn(u)
    \/ \E u \in Users, name \in DisplayNames : OAuthSignIn(u, name)
    \/ HandlerGetProfile
    \/ CallbackGetProfile
    \/ CallbackCreateProfile
    \/ CallbackGetUserPickups
    \/ SignOut
    \/ \E i \in ListenerIds : DeliverSnapshot(i)
    \/ \E u \in Users, data \in ProfileUpdates : UpdateProfile(u, data)
    \/ \E u \in Users, items \in FormItemLists : SubmitCreatePickup(u, items)
    \/ \E u \in Users : SubmitAddItems(u)
    \/ \E u \in Users : SubmitAddItemsFail(u)

SpecApp == Init /\ [][NextApp]_vars

\* C28: profile creation at sign-in is get-or-create.  A createProfile that
\* commits during sign-in leaves a profile that already exists as it is
\* (its fullName, its greenCredits and its totals).
C28_ExistingProfileNotOverwritten ==
    [][\A u \in DOMAIN profiles :
          outcome' = [call |-> "createProfile", result |-> "ok"] /\ now' # now
              => profiles'[u] = profiles[u]]_vars

\* the listeners of one kind that are open
Live(kind) == {i \in DOMAIN app.listeners : app.listeners[i].kind = kind}

\* C21: a snapshot listener is cancelled when the session that opened it
\* ends.  While nobody is signed in no listener is open and App's profile
\* and pickups are null and empty, and at no time is more than one profile
\* listener or more than one pickups listener open.  (What an open listener
\* delivers - the current state, then every change - is DeliverSnapshot.)
C21_ListenersEndWithSession ==
    /\ auth.currentUser = Null
          => /\ app.listeners = <<>>
             /\ app.profile = Null
             /\ app.pickups = <<>>
    /\ Cardinality(Live("profile")) <= 1
    /\ Cardinality(Live("pickups")) <= 1

====
